---------------------------- MODULE Spec2Model ----------------------------
(***************************************************************************)
(* A model of topicnaming/topic_naming.py.                                 *)
(*                                                                         *)
(* The file holds several independent routines; each is modelled as its    *)
(* own state machine over its own variables, with its own specification:   *)
(*                                                                         *)
(*   SpecDiversify   diversify                         (lines 142-160)     *)
(*   SpecKeyphrases  longest_keyphrases                (lines 205-216)     *)
(*   SpecAggregator  layer_from_clustering             (lines 27-60)       *)
(*   SpecLayers      build_cluster_layers              (lines 63-140)      *)
(*   SpecDedup       TopicNaming.clean_topic_names     (lines 767-808)     *)
(*                                                                         *)
(* While one machine runs, the variables of the others keep the value      *)
(* "idle".  Python indices are kept 0-based as values; TLA+ sequences are  *)
(* 1-based, so element i of a Python list l is l[i + 1] here.              *)
(***************************************************************************)
EXTENDS Integers, Sequences, FiniteSets, TLC

VARIABLES
    \* diversify
    query_vector, candidate_neighbor_vectors, alpha, max_candidates,
    retained_neighbor_indices, dv_i, dv_pc,
    \* longest_keyphrases
    kp_input, candidate_keyphrases, result, kp_i, kp_pc, kp_pass, first_result,
    \* TopicNaming.clean_topic_names
    topic_name_layers_, layer_clusters, unique_names, dd_n, dd_i, n_attempts,
    unique_name, dd_pc,
    \* layer_from_clustering
    cluster_label_vector, cluster_membership_vector, ag_base_clusters, ag_acc,
    ag_i, ag_pc,
    \* build_cluster_layers
    uncondensed_tree, min_clusters, base_min_cluster_size, min_cluster_size,
    last_min_cluster_size, new_tree, clusters, point_probs, base_clusters, n_clusters_in_layer, base_layer,
    layer_vectors, layer_locations, layer_pointsets, layer_metaclusters,
    vector_layers, location_layers, pointset_layers, metacluster_layers, bl_pc,
    \* the TopicNaming object and its fit_* methods
    cluster_layers, representation_techniques, attrs, representation_, pl_stack,
    pl_log, pl_calls, pl_rep, pl_status,
    \* fit_base_level_prompts
    n_ctx, max_docs_per_cluster, layer_size, cluster_id, pr_overhead, pr_docs,
    reduced_docs_per_cluster, prompt, prompt_length, prompts, base_layer_prompts_,
    pr_pc,
    \* fit_clusters, the neighbours of the clusters
    nb_layer, layer_cluster_neighbours, nb_pc

dvVars == <<query_vector, candidate_neighbor_vectors, alpha, max_candidates,
            retained_neighbor_indices, dv_i, dv_pc>>

kpVars == <<kp_input, candidate_keyphrases, result, kp_i, kp_pc, kp_pass, first_result>>

ddVars == <<topic_name_layers_, layer_clusters, unique_names, dd_n, dd_i,
            n_attempts, unique_name, dd_pc>>

agVars == <<cluster_label_vector, cluster_membership_vector, ag_base_clusters,
            ag_acc, ag_i, ag_pc>>

blVars == <<uncondensed_tree, min_clusters, base_min_cluster_size, min_cluster_size,
            last_min_cluster_size, new_tree, clusters, point_probs, base_clusters, n_clusters_in_layer,
            base_layer, layer_vectors, layer_locations, layer_pointsets,
            layer_metaclusters, vector_layers, location_layers, pointset_layers, metacluster_layers,
            bl_pc>>

plVars == <<cluster_layers, representation_techniques, attrs, representation_,
            pl_stack, pl_log, pl_calls, pl_rep, pl_status>>

prVars == <<n_ctx, max_docs_per_cluster, layer_size, cluster_id, pr_overhead,
            pr_docs, reduced_docs_per_cluster, prompt, prompt_length, prompts,
            base_layer_prompts_, pr_pc>>

nbVars == <<nb_layer, layer_cluster_neighbours, nb_pc>>

vars == <<dvVars, kpVars, ddVars, agVars, blVars, plVars, prVars, nbVars>>

\* The variables of the machines other than the named one.
notDv == <<kpVars, ddVars, agVars, blVars, plVars, prVars, nbVars>>

notKp == <<dvVars, ddVars, agVars, blVars, plVars, prVars, nbVars>>

notDd == <<dvVars, kpVars, agVars, blVars, plVars, prVars, nbVars>>

notAg == <<dvVars, kpVars, ddVars, blVars, plVars, prVars, nbVars>>

notBl == <<dvVars, kpVars, ddVars, agVars, plVars, prVars, nbVars>>

notPl == <<dvVars, kpVars, ddVars, agVars, blVars, prVars, nbVars>>

notPr == <<dvVars, kpVars, ddVars, agVars, blVars, plVars, nbVars>>

notNb == <<dvVars, kpVars, ddVars, agVars, blVars, plVars, prVars>>

DivIdle ==
    /\ query_vector = "idle"
    /\ candidate_neighbor_vectors = "idle"
    /\ alpha = "idle"
    /\ max_candidates = "idle"
    /\ retained_neighbor_indices = "idle"
    /\ dv_i = "idle"
    /\ dv_pc = "idle"

DdIdle ==
    /\ topic_name_layers_ = "idle"
    /\ layer_clusters = "idle"
    /\ unique_names = "idle"
    /\ dd_n = "idle"
    /\ dd_i = "idle"
    /\ n_attempts = "idle"
    /\ unique_name = "idle"
    /\ dd_pc = "idle"

NbIdle ==
    /\ nb_layer = "idle"
    /\ layer_cluster_neighbours = "idle"
    /\ nb_pc = "idle"

PrIdle ==
    /\ n_ctx = "idle"
    /\ max_docs_per_cluster = "idle"
    /\ layer_size = "idle"
    /\ cluster_id = "idle"
    /\ pr_overhead = "idle"
    /\ pr_docs = "idle"
    /\ reduced_docs_per_cluster = "idle"
    /\ prompt = "idle"
    /\ prompt_length = "idle"
    /\ prompts = "idle"
    /\ base_layer_prompts_ = "idle"
    /\ pr_pc = "idle"

PlIdle ==
    /\ cluster_layers = "idle"
    /\ representation_techniques = "idle"
    /\ attrs = "idle"
    /\ representation_ = "idle"
    /\ pl_stack = "idle"
    /\ pl_log = "idle"
    /\ pl_calls = "idle"
    /\ pl_rep = "idle"
    /\ pl_status = "idle"

BlIdle ==
    /\ uncondensed_tree = "idle"
    /\ min_clusters = "idle"
    /\ base_min_cluster_size = "idle"
    /\ min_cluster_size = "idle"
    /\ last_min_cluster_size = "idle"
    /\ new_tree = "idle"
    /\ layer_vectors = "idle"
    /\ layer_locations = "idle"
    /\ layer_pointsets = "idle"
    /\ layer_metaclusters = "idle"
    /\ clusters = "idle"
    /\ point_probs = "idle"
    /\ base_clusters = "idle"
    /\ n_clusters_in_layer = "idle"
    /\ base_layer = "idle"
    /\ vector_layers = "idle"
    /\ location_layers = "idle"
    /\ pointset_layers = "idle"
    /\ metacluster_layers = "idle"
    /\ bl_pc = "idle"

AgIdle ==
    /\ cluster_label_vector = "idle"
    /\ cluster_membership_vector = "idle"
    /\ ag_base_clusters = "idle"
    /\ ag_acc = "idle"
    /\ ag_i = "idle"
    /\ ag_pc = "idle"

KpIdle ==
    /\ kp_input = "idle"
    /\ candidate_keyphrases = "idle"
    /\ result = "idle"
    /\ kp_i = "idle"
    /\ kp_pc = "idle"
    /\ kp_pass = "idle"
    /\ first_result = "idle"

-----------------------------------------------------------------------------
(* General helpers *)

Abs(x) == IF x < 0 THEN -x ELSE x

Sgn(x) == IF x < 0 THEN -1 ELSE IF x > 0 THEN 1 ELSE 0

Min2(x, y) == IF x <= y THEN x ELSE y

Max2(x, y) == IF x >= y THEN x ELSE y

\* All sequences over S of length lo..hi.
SeqsOf(S, lo, hi) == UNION {[1..n -> S] : n \in lo..hi}

-----------------------------------------------------------------------------
(***************************************************************************)
(* diversify (lines 142-160).                                              *)
(*                                                                         *)
(* Vectors are 2-dimensional integer vectors.  The cosine similarity of u  *)
(* and v is Dot(u,v) / sqrt(NormSq(u) * NormSq(v)); it is kept as the pair *)
(* (Dot, NormSq * NormSq) and distances are compared exactly, in real      *)
(* arithmetic (floating point rounding is not modelled).  A value          *)
(* sgn(s) * sqrt(|s|) is represented by its "signed square" s.             *)
(***************************************************************************)

\* Bounds of the diversify inputs.
MaxCands == 3
MaxCap == 3
AlphaDen == 2
MaxAlphaNum == 3

\* Default of the max_candidates parameter.
DefaultMaxCandidates == 16

Vecs == {<<1, 0>>, <<0, 1>>, <<-1, 0>>, <<1, 1>>}

Dot(u, v) == u[1] * v[1] + u[2] * v[2]

NormSq(u) == Dot(u, u)

\* sklearn's cosine metric: normalize() leaves a zero vector as it is, so its
\* similarity to anything is 0.
CosNum(u, v) == IF NormSq(u) * NormSq(v) = 0 THEN 0 ELSE Dot(u, v)

CosDenSq(u, v) == IF NormSq(u) * NormSq(v) = 0 THEN 1 ELSE NormSq(u) * NormSq(v)

\* sgn(x)*sqrt|x| + sgn(y)*sqrt|y| + sgn(z)*sqrt|z| > 0, decided in integers.
PosSum3(x, y, z) ==
    LET lo == Min2(x, Min2(y, z))
        hi == Max2(x, Max2(y, z))
        mid == IF (x <= y /\ y <= z) \/ (z <= y /\ y <= x) THEN y
               ELSE IF (y <= x /\ x <= z) \/ (z <= x /\ x <= y) THEN x
               ELSE z
    IN  IF lo >= 0 THEN hi > 0
        ELSE IF hi <= 0 THEN FALSE
        ELSE IF mid >= 0
             THEN \* sqrt(mid) + sqrt(hi) > sqrt(-lo)
                  LET r == (-lo) - mid - hi
                  IN  r < 0 \/ 4 * mid * hi > r * r
             ELSE \* sqrt(hi) > sqrt(-lo) + sqrt(-mid)
                  LET r == hi - (-lo) - (-mid)
                  IN  r > 0 /\ r * r > 4 * (-lo) * (-mid)

\* (a/b) * cosine_distance(u1, v1) > cosine_distance(u2, v2), that is
\* (a-b) - a*c1 + b*c2 > 0 with c = CosNum/sqrt(CosDenSq), multiplied by
\* sqrt(m1*m2) > 0.
ScaledDistGreater(a, b, u1, v1, u2, v2) ==
    LET p1 == CosNum(u1, v1)
        m1 == CosDenSq(u1, v1)
        p2 == CosNum(u2, v2)
        m2 == CosDenSq(u2, v2)
    IN  PosSum3(Sgn(a - b) * (a - b) * (a - b) * m1 * m2,
                (-Sgn(p1)) * a * a * p1 * p1 * m2,
                Sgn(p2) * b * b * p2 * p2 * m1)

\* candidate_neighbor_vectors[i], i a Python index.
Cand(i) == candidate_neighbor_vectors[i + 1]

\* Line 153, for Python indices i (the candidate) and j (a retained one):
\* alpha * distance_to_query[i] > retained_neighbor_distances[j].
BreakMut(i, j) ==
    ~ ScaledDistGreater(AlphaDen, alpha, Cand(i), Cand(j), query_vector, Cand(i))

Break(i, j) ==
    ScaledDistGreater(alpha, AlphaDen, query_vector, Cand(i), Cand(i), Cand(j))

\* Lines 152-154: the inner loop breaks at the first j whose test holds.
InnerLoopBreaks(i) ==
    \E k \in 1..Len(retained_neighbor_indices) :
        Break(i, retained_neighbor_indices[k])

DivInitGeneral ==
    /\ query_vector \in Vecs
    /\ candidate_neighbor_vectors \in SeqsOf(Vecs, 1, MaxCands)
    /\ alpha \in 1..MaxAlphaNum
    /\ max_candidates \in 1..MaxCap

\* The call diversify([1,0], [[1,0],[0.99,0.01],[-1,0]], alpha=1.0); the
\* vectors are scaled to integers, which leaves every cosine unchanged.
ScenarioCandidates == <<<<1, 0>>, <<99, 1>>, <<-1, 0>>>>

DivInitScenario ==
    /\ query_vector = <<1, 0>>
    /\ candidate_neighbor_vectors = ScenarioCandidates
    /\ alpha = AlphaDen
    /\ max_candidates = DefaultMaxCandidates

\* Line 147, and the loop of line 148 about to start at i = 1.
DivInit ==
    /\ KpIdle
    /\ DdIdle
    /\ AgIdle
    /\ BlIdle
    /\ PlIdle
    /\ PrIdle
    /\ NbIdle
    /\ DivInitGeneral \/ DivInitScenario
    /\ retained_neighbor_indices = <<0>>
    /\ dv_i = 1
    /\ dv_pc = "loop"

\* Lines 148-158: one iteration of the outer loop.
DivRetainMut(i) ==
    /\ retained_neighbor_indices' = Append(retained_neighbor_indices, i - 1)
    /\ dv_pc' = IF Len(retained_neighbor_indices) + 1 >= max_candidates
                THEN "done" ELSE "loop"

DivRetain(i) ==
    /\ retained_neighbor_indices' = Append(retained_neighbor_indices, i)
    /\ dv_pc' = IF Len(retained_neighbor_indices) + 1 >= max_candidates
                THEN "done" ELSE "loop"

DivStep ==
    /\ dv_pc = "loop"
    /\ dv_i < Len(candidate_neighbor_vectors)
    /\ IF InnerLoopBreaks(dv_i)
       THEN UNCHANGED <<retained_neighbor_indices, dv_pc>>
       ELSE DivRetain(dv_i)
    /\ dv_i' = dv_i + 1
    /\ UNCHANGED <<query_vector, candidate_neighbor_vectors, alpha, max_candidates>>
    /\ UNCHANGED notDv

\* Line 160: the candidates are exhausted.
DivReturn ==
    /\ dv_pc = "loop"
    /\ dv_i >= Len(candidate_neighbor_vectors)
    /\ dv_pc' = "done"
    /\ UNCHANGED <<query_vector, candidate_neighbor_vectors, alpha, max_candidates,
                   retained_neighbor_indices, dv_i>>
    /\ UNCHANGED notDv

DivNext == DivStep \/ DivReturn

SpecDiversify == DivInit /\ [][DivNext]_vars

Retained == {retained_neighbor_indices[k] : k \in 1..Len(retained_neighbor_indices)}

IsScenario ==
    /\ query_vector = <<1, 0>>
    /\ candidate_neighbor_vectors = ScenarioCandidates
    /\ alpha = AlphaDen

\* C1: the list diversify builds is a strictly increasing sequence of valid
\* candidate indices (no index repeated) whose first element is index 0.
C1_StrictlyIncreasingFromZero ==
    /\ Len(retained_neighbor_indices) >= 1
    /\ retained_neighbor_indices[1] = 0
    /\ \A k \in 1..Len(retained_neighbor_indices) :
          retained_neighbor_indices[k] \in 0..(Len(candidate_neighbor_vectors) - 1)
    /\ \A k \in 1..(Len(retained_neighbor_indices) - 1) :
          retained_neighbor_indices[k] < retained_neighbor_indices[k + 1]

\* A run that returned after skipping candidate 1 and retaining candidate 2.
C1_Witness ==
    /\ dv_pc = "done"
    /\ max_candidates = 3
    /\ retained_neighbor_indices = <<0, 2>>

\* C2 (as claimed): the returned list has length at most max_candidates, for
\* every value of max_candidates, 1 included.
C2_LengthAtMostCap ==
    dv_pc = "done" => Len(retained_neighbor_indices) <= max_candidates

\* C3: a visited candidate i >= 1 is rejected exactly when some candidate
\* retained earlier is at cosine distance strictly below alpha * d(query, i);
\* otherwise (equality included) it is appended, and nothing retained earlier
\* is ever removed or reordered.
C3_RejectIffCloser ==
    [][(dv_pc = "loop" /\ dv_i' = dv_i + 1) =>
         LET redundant ==
               \E j \in Retained :
                   ScaledDistGreater(alpha, AlphaDen, query_vector, Cand(dv_i),
                                     Cand(dv_i), Cand(j))
         IN  /\ redundant => retained_neighbor_indices' = retained_neighbor_indices
             /\ ~ redundant =>
                   retained_neighbor_indices' = Append(retained_neighbor_indices, dv_i)
      ]_vars

\* A finished run with a rejected candidate, and a candidate retained although
\* a retained neighbour was exactly as far from it as alpha * d(query, i).
C3_Witness ==
    /\ dv_pc = "done"
    /\ \E i \in 1..(dv_i - 1) : i \notin Retained
    /\ \E i \in Retained : \E j \in Retained :
          /\ j < i
          /\ ~ ScaledDistGreater(alpha, AlphaDen, query_vector, Cand(i), Cand(i), Cand(j))
          /\ ~ ScaledDistGreater(AlphaDen, alpha, Cand(i), Cand(j), query_vector, Cand(i))

\* C4 (as claimed): the scenario call returns [0, 2].
C4_ScenarioReturns02 ==
    (IsScenario /\ dv_pc = "done") => retained_neighbor_indices = <<0, 2>>

\* C4 (amended): the scenario call returns [0, 1]: candidate 1 is exactly as
\* far from retained candidate 0 as from the query (they are the same vector),
\* so it is retained, and candidate 2 is then closer to candidate 1 than to
\* the query, so it is rejected.
C4_ScenarioReturns01 ==
    (IsScenario /\ dv_pc = "done") => retained_neighbor_indices = <<0, 1>>

C4_Witness == IsScenario /\ dv_pc = "done" /\ dv_i = 3

-----------------------------------------------------------------------------
(***************************************************************************)
(* longest_keyphrases (lines 205-216).                                     *)
(*                                                                         *)
(* A phrase is a sequence of one-character strings.  The machine runs the  *)
(* function on a list of phrases and then runs it again on the list the    *)
(* first run returned.                                                     *)
(***************************************************************************)

\* Bounds of the longest_keyphrases inputs.
MaxPhraseLen == 5
MaxPhrases == 3

Alphabet == {"a", " "}

\* The candidates are n-grams of a vocabulary (lines 256-258): words joined
\* by single spaces, with no space at either end.
IsNGram(p) ==
    /\ Len(p) >= 1
    /\ p[1] # " "
    /\ p[Len(p)] # " "
    /\ \A k \in 1..(Len(p) - 1) : ~ (p[k] = " " /\ p[k + 1] = " ")

Phrases == {p \in SeqsOf(Alphabet, 1, MaxPhraseLen) : IsNGram(p)}

\* Python's `s in t` on strings.
IsSubstring(s, t) ==
    \E k \in 1..(Len(t) - Len(s) + 1) : SubSeq(t, k, k + Len(s) - 1) = s

\* Line 209: f" {phrase}" in other or f"{phrase} " in other.
Extends(other, phrase) ==
    \/ IsSubstring(<<" ">> \o phrase, other)
    \/ IsSubstring(phrase \o <<" ">>, other)

\* Lines 208-210: the inner loop over the list from its element k on; phrase
\* is replaced by each element that extends its current value.
RECURSIVE InnerLoop(_, _, _)
InnerLoop(phrase, list, k) ==
    IF k > Len(list) THEN phrase
    ELSE InnerLoop(IF Extends(list[k], phrase) THEN list[k] ELSE phrase, list, k + 1)

InSeq(x, list) == \E k \in 1..Len(list) : list[k] = x

KpInit ==
    /\ DivIdle
    /\ DdIdle
    /\ AgIdle
    /\ BlIdle
    /\ PlIdle
    /\ PrIdle
    /\ NbIdle
    /\ kp_input \in SeqsOf(Phrases, 0, MaxPhrases)
    /\ candidate_keyphrases = kp_input
    /\ result = <<>>
    /\ kp_i = 0
    /\ kp_pc = "loop"
    /\ kp_pass = 1
    /\ first_result = <<>>

\* Lines 207-214: one iteration of the outer loop.
KpStepMut ==
    /\ kp_pc = "loop"
    /\ kp_i < Len(candidate_keyphrases)
    /\ LET phrase == InnerLoop(candidate_keyphrases[kp_i + 1], candidate_keyphrases, 1)
       IN  IF ~ InSeq(candidate_keyphrases[kp_i + 1], result)
           THEN /\ candidate_keyphrases' = [candidate_keyphrases EXCEPT ![kp_i + 1] = phrase]
                /\ result' = Append(result, phrase)
           ELSE UNCHANGED <<candidate_keyphrases, result>>
    /\ kp_i' = kp_i + 1
    /\ UNCHANGED <<kp_input, kp_pc, kp_pass, first_result>>
    /\ UNCHANGED notKp

KpStep ==
    /\ kp_pc = "loop"
    /\ kp_i < Len(candidate_keyphrases)
    /\ LET phrase == InnerLoop(candidate_keyphrases[kp_i + 1], candidate_keyphrases, 1)
       IN  IF ~ InSeq(phrase, result)
           THEN /\ candidate_keyphrases' = [candidate_keyphrases EXCEPT ![kp_i + 1] = phrase]
                /\ result' = Append(result, phrase)
           ELSE UNCHANGED <<candidate_keyphrases, result>>
    /\ kp_i' = kp_i + 1
    /\ UNCHANGED <<kp_input, kp_pc, kp_pass, first_result>>
    /\ UNCHANGED notKp

\* Line 216.
KpReturn ==
    /\ kp_pc = "loop"
    /\ kp_i >= Len(candidate_keyphrases)
    /\ kp_pc' = "done"
    /\ UNCHANGED <<kp_input, candidate_keyphrases, result, kp_i, kp_pass, first_result>>
    /\ UNCHANGED notKp

\* The caller passes the returned list to longest_keyphrases again
\* (lines 205-206 of the second call).
KpRerun ==
    /\ kp_pc = "done"
    /\ kp_pass = 1
    /\ first_result' = result
    /\ candidate_keyphrases' = result
    /\ result' = <<>>
    /\ kp_i' = 0
    /\ kp_pc' = "loop"
    /\ kp_pass' = 2
    /\ UNCHANGED kp_input
    /\ UNCHANGED notKp

KpNext == KpStep \/ KpReturn \/ KpRerun

SpecKeyphrases == KpInit /\ [][KpNext]_vars

\* C8: longest_keyphrases is idempotent: run on the list it returned, it
\* returns that list again, element for element and in the same order.
C8_Idempotent ==
    (kp_pass = 2 /\ kp_pc = "done") => result = first_result

\* A second run finished on a first result of two phrases, the first run
\* having replaced the first of three phrases by a longer one.
C8_Witness ==
    /\ kp_pass = 2
    /\ kp_pc = "done"
    /\ Len(kp_input) = 3
    /\ Len(first_result) = 2
    /\ first_result[1] # kp_input[1]


\* C21 (as claimed): in the first run, a phrase of the list is replaced only
\* by a phrase that contains it as a whitespace-bounded sub-phrase: the old
\* phrase occurs in the new one starting at its beginning or after a space
\* and ending at its end or before a space.
C21_ReplacedOnlyBySuperPhrase ==
    kp_pass = 1 =>
        \A n \in 1..Len(kp_input) :
            LET p == kp_input[n]
                q == candidate_keyphrases[n]
            IN  q # p =>
                    \E k \in 1..(Len(q) - Len(p) + 1) :
                        /\ SubSeq(q, k, k + Len(p) - 1) = p
                        /\ (k = 1 \/ q[k - 1] = " ")
                        /\ (k + Len(p) - 1 = Len(q) \/ q[k + Len(p)] = " ")

-----------------------------------------------------------------------------
(***************************************************************************)
(* TopicNaming.clean_topic_names, the deduplication pass (lines 777-808).  *)
(*                                                                         *)
(* A string is a sequence of characters; "NL" stands for the newline       *)
(* character.  The text-generation collaborator may return any element of  *)
(* RawReplies at each call.  Cluster i of every layer has the pointset     *)
(* [i]; the last document is in no pointset.                               *)
(***************************************************************************)

\* Bound: the number of clusters over all layers.
MaxClusters == 3

\* Line 788: the number of attempts allowed per cluster.
MaxAttempts == 8

Whitespace == {" ", "NL"}

Punctuation == {"."}

\* The texts self.llm(...) can return.
RawReplies ==
    { <<"a">>,
      <<"A", ".">>,
      <<"NL", " ", "b", "NL", "a">>,
      <<"b", " ", " ", "a", ".">> }

\* The placeholder of line 777.
Unlabelled == <<"Unlabelled">>

Upper(c) == CASE c = "a" -> "A" [] c = "b" -> "B" [] OTHER -> c

Lower(c) == CASE c = "A" -> "a" [] c = "B" -> "b" [] OTHER -> c

\* str.lstrip(chars) and str.rstrip(chars).
RECURSIVE LStrip(_, _)
LStrip(str, chars) ==
    IF Len(str) > 0 /\ str[1] \in chars THEN LStrip(Tail(str), chars) ELSE str

RECURSIVE RStrip(_, _)
RStrip(str, chars) ==
    IF Len(str) > 0 /\ str[Len(str)] \in chars
    THEN RStrip(SubSeq(str, 1, Len(str) - 1), chars)
    ELSE str

\* str.strip(chars).
Strip(str, chars) == RStrip(LStrip(str, chars), chars)

\* str.split(): the words between runs of whitespace; word is the word read
\* so far.
RECURSIVE SplitWords(_, _)
SplitWords(str, word) ==
    IF Len(str) = 0 THEN (IF Len(word) = 0 THEN <<>> ELSE <<word>>)
    ELSE IF str[1] \in Whitespace
         THEN (IF Len(word) = 0 THEN <<>> ELSE <<word>>) \o SplitWords(Tail(str), <<>>)
         ELSE SplitWords(Tail(str), Append(word, str[1]))

\* str.capitalize().
Capitalize(word) ==
    [k \in 1..Len(word) |-> IF k = 1 THEN Upper(word[k]) ELSE Lower(word[k])]

\* " ".join(words).
RECURSIVE JoinWords(_)
JoinWords(words) ==
    IF Len(words) = 0 THEN <<>>
    ELSE IF Len(words) = 1 THEN words[1]
    ELSE words[1] \o <<" ">> \o JoinWords(Tail(words))

\* string.capwords(s).
CapWords(str) ==
    LET words == SplitWords(str, <<>>)
    IN  JoinWords([k \in 1..Len(words) |-> Capitalize(words[k])])

\* Lines 785 and 802: string.capwords(name.strip(punctuation + whitespace)).
Recap(str) == CapWords(Strip(str, Punctuation \cup Whitespace))

\* s.split("\n")[0].
RECURSIVE FirstLine(_)
FirstLine(str) ==
    IF Len(str) = 0 \/ str[1] = "NL" THEN <<>>
    ELSE <<str[1]>> \o FirstLine(Tail(str))

\* Lines 799-801 without the normalisation of line 802.
CleanReplyMut(text) ==
    IF \E k \in 1..Len(text) : text[k] = "NL"
    THEN FirstLine(LStrip(text, {"NL", " "}))
    ELSE text

\* Lines 799-802 (and 637-640): the name taken from a reply of the collaborator.
CleanReply(text) ==
    Recap(IF \E k \in 1..Len(text) : text[k] = "NL"
          THEN FirstLine(LStrip(text, {"NL", " "}))
          ELSE text)

\* The names get_topic_name can have produced (lines 630-642).
GeneratedNames == {CleanReply(text) : text \in RawReplies}

NumDocs == MaxClusters + 1

Docs == 0..(NumDocs - 1)

\* self.cluster_layers_.pointset_layers[n][i].
Pointset(n, i) == {i}

\* The lists of layers with at most budget clusters in all, every layer with
\* at least one cluster.
RECURSIVE LayerLists(_)
LayerLists(budget) ==
    {<<>>} \cup
    UNION { { <<layer>> \o rest : rest \in LayerLists(budget - Len(layer)) } :
            layer \in SeqsOf(GeneratedNames, 1, budget) }

\* len(self.topic_name_layers_) and len(self.topic_name_layers_[n]).
NumLayers == Len(topic_name_layers_)

LayerSize(n) == Len(topic_name_layers_[n + 1])

\* Lines 777-779.
DdInit ==
    /\ DivIdle
    /\ KpIdle
    /\ AgIdle
    /\ BlIdle
    /\ PlIdle
    /\ PrIdle
    /\ NbIdle
    /\ topic_name_layers_ \in (LayerLists(MaxClusters) \ {<<>>})
    /\ layer_clusters = [n \in 1..NumLayers |-> [d \in Docs |-> Unlabelled]]
    /\ unique_names = {}
    /\ dd_n = NumLayers - 1
    /\ dd_i = 0
    /\ n_attempts = 0
    /\ unique_name = <<>>
    /\ dd_pc = "start"

\* Lines 784-787: a cluster is taken up.
DdStartCluster ==
    /\ dd_pc = "start"
    /\ n_attempts' = 0
    /\ unique_name' = Recap(topic_name_layers_[dd_n + 1][dd_i + 1])
    /\ dd_pc' = "loop"
    /\ UNCHANGED <<topic_name_layers_, layer_clusters, unique_names, dd_n, dd_i>>
    /\ UNCHANGED notDd

\* Line 788: the condition of the while loop.
LoopConditionMut == unique_name \in unique_names /\ n_attempts <= MaxAttempts

LoopCondition == unique_name \in unique_names /\ n_attempts < MaxAttempts

\* Lines 789-804: one remedy request; the collaborator returns any text.
DdReprompt ==
    /\ dd_pc = "loop"
    /\ LoopCondition
    /\ \E text \in RawReplies : unique_name' = CleanReply(text)
    /\ n_attempts' = n_attempts + 1
    /\ UNCHANGED <<topic_name_layers_, layer_clusters, unique_names, dd_n, dd_i, dd_pc>>
    /\ UNCHANGED notDd

\* Line 807.
AddNameMut == unique_names

AddName == unique_names \cup {unique_name}

\* Line 808: self.layer_clusters[n][indices] = unique_name.
AssignNameMut ==
    [layer_clusters EXCEPT ![dd_n + 1] = [d \in Docs |-> unique_name]]

AssignName ==
    [layer_clusters EXCEPT ![dd_n + 1] =
        [d \in Docs |-> IF d \in Pointset(dd_n, dd_i) THEN unique_name ELSE @[d]]]

\* Lines 807-808, then the next cluster of the layer (line 781), the next
\* finer layer (line 779), or the end.
DdCommit ==
    /\ dd_pc = "loop"
    /\ ~ LoopCondition
    /\ unique_names' = AddName
    /\ layer_clusters' = AssignName
    /\ IF dd_i + 1 < LayerSize(dd_n)
       THEN /\ dd_i' = dd_i + 1
            /\ dd_pc' = "start"
            /\ UNCHANGED dd_n
       ELSE IF dd_n > 0
       THEN /\ dd_n' = dd_n - 1
            /\ dd_i' = 0
            /\ dd_pc' = "start"
       ELSE /\ dd_pc' = "done"
            /\ UNCHANGED <<dd_n, dd_i>>
    /\ UNCHANGED <<topic_name_layers_, n_attempts, unique_name>>
    /\ UNCHANGED notDd

DdNext == DdStartCluster \/ DdReprompt \/ DdCommit

SpecDedup == DdInit /\ [][DdNext]_vars

\* Cluster i of layer n has been committed.
Committed(n, i) ==
    \/ n > dd_n
    \/ n = dd_n /\ (i < dd_i \/ dd_pc = "done")

\* The name committed for cluster i of layer n: the one its documents carry.
CommittedName(n, i) == layer_clusters[n + 1][i]

SameGeneratedName(n, i, j) ==
    Recap(topic_name_layers_[n + 1][i + 1]) = Recap(topic_name_layers_[n + 1][j + 1])

\* C9 (as claimed): two clusters of one layer with the same normalized
\* generated name are committed with two distinct names, whatever the
\* collaborator returns.
C9_DistinctNames ==
    \A n \in 0..(NumLayers - 1) : \A i, j \in 0..(LayerSize(n) - 1) :
        (i < j /\ Committed(n, j) /\ SameGeneratedName(n, i, j))
            => CommittedName(n, i) # CommittedName(n, j)

\* C9 (amended): the name committed for the later of two such clusters
\* differs from the name committed for the earlier one, unless all 8
\* replacements asked for the later cluster were names already in use.
C9_DistinctUnlessExhausted ==
    [][(/\ dd_pc = "loop" /\ dd_pc' # "loop"
        /\ ~ (n_attempts = MaxAttempts /\ unique_name \in unique_names)) =>
         \A i \in 0..(dd_i - 1) :
             SameGeneratedName(dd_n, i, dd_i)
                 => layer_clusters'[dd_n + 1][dd_i] # layer_clusters'[dd_n + 1][i]
      ]_vars

\* The second of two clusters with the same generated name has just been
\* committed, after at least one remedy request, with a name of its own.
C9_Witness ==
    /\ dd_pc \in {"start", "done"}
    /\ n_attempts \in 1..(MaxAttempts - 1)
    /\ \E n \in 0..(NumLayers - 1) : \E i, j \in 0..(LayerSize(n) - 1) :
          /\ i < j
          /\ Committed(n, j)
          /\ ~ Committed(n, j + 1)
          /\ SameGeneratedName(n, i, j)
          /\ CommittedName(n, j) = unique_name
          /\ CommittedName(n, i) # CommittedName(n, j)

\* C10: a cluster is re-prompted at most 8 times, only while its current
\* name is in the used-name set, and the name its loop ends with is in the
\* used-name set when the next cluster is taken up.
C10_BoundedRepromptThenCommit ==
    [][/\ n_attempts' \in 0..MaxAttempts
       /\ (n_attempts' = n_attempts + 1) => unique_name \in unique_names
       /\ (n_attempts' # n_attempts) => (n_attempts' = n_attempts + 1 \/ dd_pc = "start")
       /\ (dd_pc = "loop" /\ dd_pc' # "loop") => unique_name \in unique_names'
       /\ (unique_names' # unique_names) => (dd_pc = "loop" /\ dd_pc' # "loop")
      ]_vars

\* A cluster committed with a duplicate name after all 8 attempts.
C10_Witness ==
    /\ dd_pc \in {"start", "done"}
    /\ n_attempts = MaxAttempts
    /\ unique_name \in unique_names
    /\ \E n \in 0..(NumLayers - 1) : \E i, j \in 0..(LayerSize(n) - 1) :
          i # j /\ Committed(n, i) /\ Committed(n, j)
          /\ CommittedName(n, i) = CommittedName(n, j)

\* The clusters of layer n whose pointset holds document d and whose name
\* has been committed.
CommittedClustersOf(n, d) ==
    {i \in 0..(LayerSize(n) - 1) : Committed(n, i) /\ d \in Pointset(n, i)}

\* C17: a commit writes the cluster's final name on the documents of its
\* pointset and on nothing else; a document in no committed pointset of a
\* layer carries "Unlabelled" there; so at the end every document carries the
\* committed name of its cluster, or "Unlabelled".
C17_NamesOnPointsets ==
    /\ [](dd_pc # "idle" =>
            \A n \in 0..(NumLayers - 1) : \A d \in Docs :
                CommittedClustersOf(n, d) = {} => layer_clusters[n + 1][d] = Unlabelled)
    /\ [][(dd_pc = "loop" /\ dd_pc' # "loop") =>
            \A n \in 0..(NumLayers - 1) : \A d \in Docs :
                layer_clusters'[n + 1][d] =
                    IF n = dd_n /\ d \in Pointset(dd_n, dd_i)
                    THEN unique_name
                    ELSE layer_clusters[n + 1][d]
         ]_vars

\* The pass is over on two layers or more: a document of a cluster carries a
\* name, the document no pointset holds carries "Unlabelled".
C17_Witness ==
    /\ dd_pc = "done"
    /\ NumLayers >= 2
    /\ LayerSize(0) >= 2
    /\ layer_clusters[1][0] # Unlabelled
    /\ layer_clusters[1][1] # Unlabelled
    /\ layer_clusters[1][NumDocs - 1] = Unlabelled

\* Python's str.startswith.
IsPrefix(prefix, str) ==
    Len(prefix) <= Len(str) /\ SubSeq(str, 1, Len(prefix)) = prefix

\* The name of cluster i of layer n as the pass first takes it (line 785).
OriginalName(n, i) == Recap(topic_name_layers_[n + 1][i + 1])

\* C18 (as claimed): a committed name that differs from the cluster's
\* original normalized name starts with that original name.
C18_SuffixAppended ==
    dd_pc # "idle" =>
        \A n \in 0..(NumLayers - 1) : \A i \in 0..(LayerSize(n) - 1) :
            (Committed(n, i) /\ CommittedName(n, i) # OriginalName(n, i))
                => IsPrefix(OriginalName(n, i), CommittedName(n, i))

\* A name as lines 799-802 leave it: one line, no punctuation or whitespace
\* at either end, words separated by one space, each word capitalized.
IsNormalName(name) ==
    /\ \A k \in 1..Len(name) : name[k] # "NL"
    /\ Len(name) > 0 =>
          /\ name[1] \notin (Punctuation \cup Whitespace)
          /\ name[Len(name)] \notin (Punctuation \cup Whitespace)
    /\ \A k \in 1..(Len(name) - 1) : ~ (name[k] = " " /\ name[k + 1] = " ")
    /\ \A k \in 1..Len(name) :
          IF k = 1 \/ name[k - 1] = " "
          THEN name[k] = Upper(name[k])
          ELSE name[k] = Lower(name[k])

\* C18 (amended): a committed name that differs from the cluster's original
\* name is the normalized first line of a reply of the collaborator, which
\* replaces the original name.
C18_ReplacedByNormalizedReply ==
    dd_pc # "idle" =>
        \A n \in 0..(NumLayers - 1) : \A i \in 0..(LayerSize(n) - 1) :
            (Committed(n, i) /\ CommittedName(n, i) # OriginalName(n, i))
                => /\ IsNormalName(CommittedName(n, i))
                   /\ CommittedName(n, i) \in unique_names

\* A cluster named "A" has been committed as "B A" or "B": the original name
\* is not the beginning of the new one.
C18_Witness ==
    /\ dd_pc \in {"start", "done"}
    /\ \E n \in 0..(NumLayers - 1) : \E i \in 0..(LayerSize(n) - 1) :
          /\ Committed(n, i)
          /\ OriginalName(n, i) = <<"A">>
          /\ CommittedName(n, i) # OriginalName(n, i)
          /\ ~ IsPrefix(OriginalName(n, i), CommittedName(n, i))

-----------------------------------------------------------------------------
(***************************************************************************)
(* layer_from_clustering (lines 27-60).                                    *)
(*                                                                         *)
(* Membership strengths are kept in tenths (0..10).  The accumulators      *)
(* average_vectors, average_locations and total_weights are indexed alike; *)
(* they are represented by total_weights.  The function is compiled by     *)
(* numba: an index past the end of an array is not checked (the write goes *)
(* past the buffer: the run goes on or the process dies), an index past    *)
(* the end of a list raises IndexError.                                    *)
(***************************************************************************)

\* Bound of the aggregator inputs.
MaxPoints == 3

\* The default membership_strength_threshold, 0.2, in tenths.
membership_strength_threshold == 2

\* The labels of a flat clustering: -1 is "unassigned".
LabelValues == {-1, 0, 1}

StrengthValues == {2, 3}

SeqRange(seq) == {seq[k] : k \in 1..Len(seq)}

\* The collaborator numbers the clusters 0..k-1.
Contiguous(labels) ==
    \A c \in SeqRange(labels) : c >= 0 => (0..c) \subseteq SeqRange(labels)

\* Line 35.
NClusters(labels) == Cardinality(SeqRange(labels)) - 1

\* Lines 37-41: accumulators for n clusters.
AccInit(n) ==
    [ total_weights |-> [c \in 0..(n - 1) |-> 0],
      pointsets     |-> [c \in 0..(n - 1) |-> {}],
      metaclusters  |-> [c \in 0..(n - 1) |-> {}],
      overrun       |-> FALSE,
      raised        |-> FALSE ]

\* Line 50.
AboveThresholdMut(strength) == strength >= membership_strength_threshold

AboveThreshold(strength) == strength > membership_strength_threshold

\* Lines 44-54 for point i with label cluster_num, strength and finer label
\* sub_cluster, on accumulators for n clusters.
AccPoint(acc, i, cluster_num, strength, sub_cluster, n) ==
    IF cluster_num < 0 THEN acc
    ELSE IF cluster_num >= n
    THEN \* lines 46-48 write past the arrays; line 51 indexes past the list
         [acc EXCEPT !.overrun = TRUE,
                     !.raised = AboveThreshold(strength)]
    ELSE [acc EXCEPT
            !.total_weights[cluster_num] = @ + strength,
            !.pointsets[cluster_num] =
                IF AboveThreshold(strength) THEN @ \cup {i} ELSE @,
            !.metaclusters[cluster_num] =
                IF AboveThreshold(strength) /\ sub_cluster # -1
                THEN @ \cup {sub_cluster} ELSE @]

\* Lines 43-54 from point i on; stops at the first IndexError.
RECURSIVE AccLoop(_, _, _, _, _)
AccLoop(acc, i, labels, strengths, base) ==
    IF i >= Len(labels) \/ acc.raised THEN acc
    ELSE AccLoop(AccPoint(acc, i, labels[i + 1], strengths[i + 1], base[i + 1],
                          NClusters(labels)),
                 i + 1, labels, strengths, base)

\* The whole function: its accumulators at the return or at the IndexError.
LayerFromClustering(labels, strengths, base) ==
    AccLoop(AccInit(NClusters(labels)), 0, labels, strengths, base)

AgInit ==
    /\ DivIdle
    /\ KpIdle
    /\ DdIdle
    /\ BlIdle
    /\ PlIdle
    /\ PrIdle
    /\ NbIdle
    /\ cluster_label_vector \in
          {l \in SeqsOf(LabelValues, 1, MaxPoints) : Contiguous(l)}
    /\ cluster_membership_vector \in [1..Len(cluster_label_vector) -> StrengthValues]
    /\ ag_base_clusters \in [1..Len(cluster_label_vector) -> LabelValues]
    /\ ag_acc = AccInit(NClusters(cluster_label_vector))
    /\ ag_i = 0
    /\ ag_pc = "loop"

\* Lines 43-54: one iteration.
AgStep ==
    /\ ag_pc = "loop"
    /\ ag_i < Len(cluster_label_vector)
    /\ ag_acc' = AccPoint(ag_acc, ag_i, cluster_label_vector[ag_i + 1],
                          cluster_membership_vector[ag_i + 1],
                          ag_base_clusters[ag_i + 1],
                          NClusters(cluster_label_vector))
    /\ ag_pc' = IF ag_acc'.raised THEN "raised" ELSE "loop"
    /\ ag_i' = ag_i + 1
    /\ UNCHANGED <<cluster_label_vector, cluster_membership_vector, ag_base_clusters>>
    /\ UNCHANGED notAg

\* Lines 46-48 with cluster_num past the arrays: the process can die.
AgOverrunCrash ==
    /\ ag_pc = "loop"
    /\ ag_i < Len(cluster_label_vector)
    /\ cluster_label_vector[ag_i + 1] >= NClusters(cluster_label_vector)
    /\ ag_pc' = "crashed"
    /\ UNCHANGED <<cluster_label_vector, cluster_membership_vector, ag_base_clusters,
                   ag_acc, ag_i>>
    /\ UNCHANGED notAg

\* Lines 56-60.
AgReturn ==
    /\ ag_pc = "loop"
    /\ ag_i >= Len(cluster_label_vector)
    /\ ag_pc' = "returned"
    /\ UNCHANGED <<cluster_label_vector, cluster_membership_vector, ag_base_clusters,
                   ag_acc, ag_i>>
    /\ UNCHANGED notAg

AgNext == AgStep \/ AgOverrunCrash \/ AgReturn

SpecAggregator == AgInit /\ [][AgNext]_vars

\* C7: the pointset of every cluster the function returns is exactly the set
\* of documents with that label and a strength strictly above the threshold,
\* so no document is in the pointsets of two clusters.
C7_PointsetsExact ==
    ag_pc = "returned" =>
        /\ \A c \in DOMAIN ag_acc.pointsets :
              ag_acc.pointsets[c] =
                  {i \in 0..(Len(cluster_label_vector) - 1) :
                      /\ cluster_label_vector[i + 1] = c
                      /\ cluster_membership_vector[i + 1] > membership_strength_threshold}
        /\ \A c, d \in DOMAIN ag_acc.pointsets :
              c # d => ag_acc.pointsets[c] \cap ag_acc.pointsets[d] = {}

\* A return with two clusters: a document above the threshold is kept in one,
\* a document at the threshold is left out of the other.
C7_Witness ==
    /\ ag_pc = "returned"
    /\ DOMAIN ag_acc.pointsets = {0, 1}
    /\ ag_acc.pointsets[0] # {}
    /\ ag_acc.pointsets[1] = {}
    /\ \E i \in 1..Len(cluster_label_vector) :
          /\ cluster_label_vector[i] = 1
          /\ cluster_membership_vector[i] = membership_strength_threshold


\* C22 (as claimed): for every label vector, with or without the label -1,
\* the function returns, with one pointset and one metacluster set per
\* distinct non-negative label, indexed by that label, and no accumulator is
\* indexed outside 0..n_clusters-1.
C22_OnePerLabelInBounds ==
    /\ ag_pc \notin {"raised", "crashed"}
    /\ ~ ag_acc.overrun
    /\ ag_pc = "returned" =>
          LET labels == {c \in SeqRange(cluster_label_vector) : c >= 0}
          IN  /\ DOMAIN ag_acc.total_weights = labels
              /\ DOMAIN ag_acc.pointsets = labels
              /\ DOMAIN ag_acc.metaclusters = labels

-----------------------------------------------------------------------------
(***************************************************************************)
(* build_cluster_layers (lines 63-140).                                    *)
(*                                                                         *)
(* The single-linkage tree built at lines 80-86 is the input: a point is   *)
(* <<>>, a merge of two subtrees at distance h is <<left, right, h>>.      *)
(* condense_tree, extract_leaves, get_cluster_label_vector and             *)
(* get_point_membership_strength_vector are the collaborator's: a merge is *)
(* a true split when both sides have at least min_cluster_size points,     *)
(* otherwise the smaller side's points fall out of the cluster at that     *)
(* distance; the clusters selected are those without a true split below    *)
(* them; a point that falls out of any other cluster is unassigned (-1);   *)
(* the strength of a point is the least distance at which a point of its   *)
(* cluster falls out, over the distance at which it falls out itself.      *)
(* Clusters are numbered left to right.  Points are numbered left to right *)
(* from 0.  Strengths are in tenths, merge distances are chosen so that    *)
(* every strength is a whole number of tenths.                             *)
(***************************************************************************)

\* Bounds of the builder inputs and of the number of loop iterations.
MaxCore == 3

MaxLayers == 4

MinClustersValues == {2, 3}

BaseMinClusterSizes == {2, 3}

\* k points merged one after the other at distance h.
RECURSIVE Chain(_, _)
Chain(k, h) == IF k = 1 THEN << >> ELSE <<Chain(k - 1, h), << >>, h>>

\* A dense group of points, with or without one point further away.
Blobs ==
    {Chain(k, 1) : k \in 1..MaxCore} \cup {<<Chain(k, 1), << >>, 5>> : k \in 1..MaxCore}

BlobPairs == {<<p[1], p[2], 5>> : p \in {q \in Blobs \X Blobs : Len(q[1]) = 0 \/ Len(q[2]) > 0}}

Groups ==
    Blobs \cup BlobPairs \cup {<<x, y, 10>> : x \in BlobPairs, y \in Blobs \cup BlobPairs}

\* The linkage trees: a group, with or without a point merged last.
LinkageTrees == Groups \cup {<<g, << >>, 10>> : g \in Groups}

IsPoint(t) == Len(t) = 0

RECURSIVE Size(_)
Size(t) == IF IsPoint(t) THEN 1 ELSE Size(t[1]) + Size(t[2])

\* condense_tree: does the cluster whose points are those of t split in two?
RECURSIVE SplitsTruly(_, _)
SplitsTruly(t, m) ==
    IF IsPoint(t) THEN FALSE
    ELSE IF Size(t[1]) >= m /\ Size(t[2]) >= m THEN TRUE
    ELSE IF Size(t[1]) >= m THEN SplitsTruly(t[1], m)
    ELSE IF Size(t[2]) >= m THEN SplitsTruly(t[2], m)
    ELSE FALSE

\* extract_leaves: the number of selected clusters below the cluster of t.
RECURSIVE NumLeafClusters(_, _)
NumLeafClusters(t, m) ==
    IF IsPoint(t) THEN 0
    ELSE IF ~ SplitsTruly(t, m) THEN 1
    ELSE IF Size(t[1]) >= m /\ Size(t[2]) >= m
         THEN NumLeafClusters(t[1], m) + NumLeafClusters(t[2], m)
    ELSE IF Size(t[1]) >= m THEN NumLeafClusters(t[1], m)
    ELSE NumLeafClusters(t[2], m)

\* k points with the same label and fall-out distance.
Fallen(k, label, h) == [j \in 1..k |-> <<label, h>>]

\* The points of a selected cluster: <<label, distance at which it falls out>>.
RECURSIVE LeafCluster(_, _, _)
LeafCluster(t, m, label) ==
    IF IsPoint(t) THEN << <<-1, 0>> >>
    ELSE IF Size(t[1]) >= m
         THEN LeafCluster(t[1], m, label) \o Fallen(Size(t[2]), label, t[3])
    ELSE IF Size(t[2]) >= m
         THEN Fallen(Size(t[1]), label, t[3]) \o LeafCluster(t[2], m, label)
    ELSE Fallen(Size(t[1]) + Size(t[2]), label, t[3])

\* get_cluster_label_vector: the points below the cluster of t, the first
\* selected cluster below it being numbered first.
RECURSIVE ClusterPoints(_, _, _)
ClusterPoints(t, m, first) ==
    IF ~ SplitsTruly(t, m) THEN LeafCluster(t, m, first)
    ELSE IF Size(t[1]) >= m /\ Size(t[2]) >= m
         THEN ClusterPoints(t[1], m, first)
                \o ClusterPoints(t[2], m, first + NumLeafClusters(t[1], m))
    ELSE IF Size(t[1]) >= m
         THEN ClusterPoints(t[1], m, first) \o Fallen(Size(t[2]), -1, 0)
    ELSE Fallen(Size(t[1]), -1, 0) \o ClusterPoints(t[2], m, first)

\* Lines 87-89 and 130-132.
FlatClustering(t, m) == ClusterPoints(t, m, 0)

LabelVector(fc) == [k \in 1..Len(fc) |-> fc[k][1]]

\* get_point_membership_strength_vector (lines 90 and 133), in tenths.
StrengthVector(fc) ==
    [k \in 1..Len(fc) |->
        IF fc[k][1] < 0 THEN 0
        ELSE LET hmin == CHOOSE h \in {fc[j][2] : j \in {j \in 1..Len(fc) : fc[j][1] = fc[k][1]}} :
                            \A j \in 1..Len(fc) : fc[j][1] = fc[k][1] => h <= fc[j][2]
             IN  (10 * hmin) \div fc[k][2]]

\* np.max(clusters) (line 136).
MaxLabel(labels) == CHOOSE c \in SeqRange(labels) : \A d \in SeqRange(labels) : d <= c

\* The list with the element put in its place in ascending order.
RECURSIVE Insert(_, _)
Insert(x, sorted) ==
    IF sorted = << >> THEN <<x>>
    ELSE IF x <= Head(sorted) THEN <<x>> \o sorted
    ELSE <<Head(sorted)>> \o Insert(x, Tail(sorted))

RECURSIVE Sort(_)
Sort(list) == IF list = << >> THEN << >> ELSE Insert(Head(list), Sort(Tail(list)))

\* int(np.quantile(sizes, 0.8)) for a non-empty list (line 127): linear
\* interpolation between the two nearest order statistics, in exact arithmetic.
QuantileInt(sizes) ==
    LET sorted == Sort(sizes)
        pos5   == 4 * (Len(sizes) - 1)
        lo     == (pos5 \div 5) + 1
        hi     == IF lo < Len(sizes) THEN lo + 1 ELSE lo
    IN  sorted[lo] + ((pos5 % 5) * (sorted[hi] - sorted[lo])) \div 5

\* Line 110.
SelectedMut(metacluster) == Cardinality(metacluster) >= 1

Selected(metacluster) == Cardinality(metacluster) > 1

\* Lines 111-119: the elements of the list whose selection flag is set.
RECURSIVE Compress(_, _)
Compress(list, selection) ==
    IF list = << >> THEN << >>
    ELSE (IF Head(selection) THEN <<Head(list)>> ELSE << >>)
            \o Compress(Tail(list), Tail(selection))

\* The four lists layer_from_clustering returns (line 60), one element per
\* cluster, the centroids being represented by the total weight.
LayerVectors(acc) ==
    [c \in 1..Cardinality(DOMAIN acc.total_weights) |->
        [cluster |-> c - 1, weight |-> acc.total_weights[c - 1]]]

LayerPointsets(acc) ==
    [c \in 1..Cardinality(DOMAIN acc.pointsets) |->
        [cluster |-> c - 1, points |-> acc.pointsets[c - 1]]]

LayerMetaclusters(acc) ==
    [c \in 1..Cardinality(DOMAIN acc.metaclusters) |->
        [cluster |-> c - 1, members |-> acc.metaclusters[c - 1]]]

\* Line 110.
Selection(list) == [c \in 1..Len(list) |-> Selected(list[c].members)]

\* The locals of the loop body before the first iteration.
NoLayer == << >>

\* last_min_cluster_size before line 126 has run.
NotAssigned == 0

\* Lines 73-97.
BlInit ==
    /\ DivIdle
    /\ KpIdle
    /\ DdIdle
    /\ AgIdle
    /\ PlIdle
    /\ PrIdle
    /\ NbIdle
    /\ uncondensed_tree \in LinkageTrees
    /\ min_clusters \in MinClustersValues
    /\ base_min_cluster_size \in BaseMinClusterSizes
    /\ min_cluster_size = base_min_cluster_size
    /\ last_min_cluster_size = NotAssigned
    /\ new_tree = FlatClustering(uncondensed_tree, base_min_cluster_size)
    /\ clusters = LabelVector(new_tree)
    /\ point_probs = StrengthVector(new_tree)
    /\ base_clusters = clusters
    /\ n_clusters_in_layer = Cardinality({c \in SeqRange(clusters) : c >= 0})
    /\ base_layer = TRUE
    /\ layer_vectors = NoLayer
    /\ layer_locations = NoLayer
    /\ layer_pointsets = NoLayer
    /\ layer_metaclusters = NoLayer
    /\ vector_layers = << >>
    /\ location_layers = << >>
    /\ pointset_layers = << >>
    /\ metacluster_layers = << >>
    /\ bl_pc = "loop"

\* The flat clustering of the iteration before the current one (the base
\* clustering during the first two iterations).
PreviousClusters ==
    IF last_min_cluster_size = NotAssigned THEN base_clusters
    ELSE LabelVector(FlatClustering(uncondensed_tree, last_min_cluster_size))

\* Line 101 with the clustering of the iteration before as the finer one.
AggregatedMut == LayerFromClustering(clusters, point_probs, PreviousClusters)

\* Line 101: the call, on the current clustering.
Aggregated == LayerFromClustering(clusters, point_probs, base_clusters)

\* Lines 99-108: the loop test and the call of layer_from_clustering.
BlAggregate ==
    /\ bl_pc = "loop"
    /\ n_clusters_in_layer >= min_clusters
    /\ Len(vector_layers) < MaxLayers
    /\ IF Aggregated.raised
       THEN \* IndexError at line 51
            /\ bl_pc' = "raised"
            /\ UNCHANGED <<layer_vectors, layer_locations, layer_pointsets,
                           layer_metaclusters>>
       ELSE /\ layer_vectors' = LayerVectors(Aggregated)
            /\ layer_locations' = LayerVectors(Aggregated)
            /\ layer_pointsets' = LayerPointsets(Aggregated)
            /\ layer_metaclusters' = LayerMetaclusters(Aggregated)
            /\ bl_pc' = "filter"
    /\ UNCHANGED <<uncondensed_tree, min_clusters, base_min_cluster_size,
                   min_cluster_size, last_min_cluster_size, new_tree, clusters, point_probs, base_clusters,
                   n_clusters_in_layer, base_layer, vector_layers, location_layers,
                   pointset_layers, metacluster_layers>>
    /\ UNCHANGED notBl

\* Lines 46-48 inside the call of line 101, with a label past the arrays:
\* the process can die.
BlOverrunCrash ==
    /\ bl_pc = "loop"
    /\ n_clusters_in_layer >= min_clusters
    /\ Len(vector_layers) < MaxLayers
    /\ Aggregated.overrun
    /\ bl_pc' = "crashed"
    /\ UNCHANGED <<uncondensed_tree, min_clusters, base_min_cluster_size,
                   min_cluster_size, last_min_cluster_size, new_tree, clusters, point_probs, base_clusters,
                   n_clusters_in_layer, base_layer, layer_vectors, layer_locations,
                   layer_pointsets, layer_metaclusters, vector_layers,
                   location_layers, pointset_layers, metacluster_layers>>
    /\ UNCHANGED notBl

\* Lines 110-137: the rest of the loop body.
BlAppend ==
    /\ bl_pc = "filter"
    /\ IF base_layer
       THEN UNCHANGED <<layer_vectors, layer_locations, layer_pointsets,
                        layer_metaclusters>>
       ELSE /\ layer_metaclusters' =
                  Compress(layer_metaclusters, Selection(layer_metaclusters))
            /\ layer_pointsets' =
                  Compress(layer_pointsets, Selection(layer_metaclusters))
            /\ layer_vectors' =
                  Compress(layer_vectors, Selection(layer_metaclusters))
            /\ layer_locations' =
                  Compress(layer_locations, Selection(layer_metaclusters))
    /\ last_min_cluster_size' = min_cluster_size
    /\ vector_layers' = Append(vector_layers, layer_vectors')
    /\ location_layers' = Append(location_layers, layer_locations')
    /\ pointset_layers' = Append(pointset_layers, layer_pointsets')
    /\ metacluster_layers' = Append(metacluster_layers, layer_metaclusters')
    /\ IF layer_pointsets' = << >>
       THEN \* line 127: no quantile of an empty list
            /\ bl_pc' = "raised"
            /\ UNCHANGED <<min_cluster_size, new_tree, clusters, point_probs,
                           n_clusters_in_layer, base_layer>>
       ELSE /\ min_cluster_size' =
                  QuantileInt([c \in 1..Len(layer_pointsets') |->
                                  Cardinality(layer_pointsets'[c].points)])
            /\ new_tree' = FlatClustering(uncondensed_tree, min_cluster_size')
            /\ clusters' = LabelVector(new_tree')
            /\ point_probs' = StrengthVector(new_tree')
            /\ n_clusters_in_layer' = MaxLabel(clusters') + 1
            /\ base_layer' = FALSE
            /\ bl_pc' = "loop"
    /\ UNCHANGED <<uncondensed_tree, min_clusters, base_min_cluster_size, base_clusters>>
    /\ UNCHANGED notBl

\* Lines 99 and 139-140.
BlReturn ==
    /\ bl_pc = "loop"
    /\ n_clusters_in_layer < min_clusters
    /\ bl_pc' = "returned"
    /\ UNCHANGED <<uncondensed_tree, min_clusters, base_min_cluster_size,
                   min_cluster_size, last_min_cluster_size, new_tree, clusters, point_probs, base_clusters,
                   n_clusters_in_layer, base_layer, layer_vectors, layer_locations,
                   layer_pointsets, layer_metaclusters, vector_layers,
                   location_layers, pointset_layers, metacluster_layers>>
    /\ UNCHANGED notBl

BlNext == BlAggregate \/ BlOverrunCrash \/ BlAppend \/ BlReturn

SpecLayers == BlInit /\ [][BlNext]_vars

\* C5 (as claimed): in the layers the function returns, the number of
\* clusters never increases from one layer to the next.
C5_CountsNonIncreasing ==
    bl_pc = "returned" =>
        \A k \in 1..(Len(vector_layers) - 1) :
            Len(vector_layers[k + 1]) <= Len(vector_layers[k])

\* C6: in every layer above the base layer every kept cluster has at least
\* two base clusters in its metacluster, and the four lists of the layer have
\* the same length and describe the same clusters in the same order.
C6_KeptClustersMerge ==
    bl_pc # "idle" =>
        /\ Len(location_layers) = Len(vector_layers)
        /\ Len(pointset_layers) = Len(vector_layers)
        /\ Len(metacluster_layers) = Len(vector_layers)
        /\ \A k \in 2..Len(vector_layers) :
              /\ Len(location_layers[k]) = Len(vector_layers[k])
              /\ Len(pointset_layers[k]) = Len(vector_layers[k])
              /\ Len(metacluster_layers[k]) = Len(vector_layers[k])
              /\ \A j \in 1..Len(vector_layers[k]) :
                    /\ location_layers[k][j].cluster = vector_layers[k][j].cluster
                    /\ pointset_layers[k][j].cluster = vector_layers[k][j].cluster
                    /\ metacluster_layers[k][j].cluster = vector_layers[k][j].cluster
                    /\ Cardinality(metacluster_layers[k][j].members) >= 2

\* A return with a layer above the base in which the first cluster of the
\* clustering was dropped and a later one, merging two base clusters, kept.
C6_Witness ==
    /\ bl_pc = "returned"
    /\ Len(vector_layers) >= 2
    /\ Len(vector_layers[2]) >= 1
    /\ vector_layers[2][1].cluster > 0
    /\ Cardinality(metacluster_layers[2][1].members) = 2

\* C12 (as claimed): a base condensation with fewer than min_clusters clusters
\* (none included) ends in an error, never in a return.
C12_TooFewBaseClustersIsAnError ==
    (/\ bl_pc \in {"returned", "raised", "crashed"}
     /\ Cardinality({c \in SeqRange(base_clusters) : c >= 0}) < min_clusters)
        => bl_pc # "returned"

\* The labels a finer clustering gives to the points of a pointset.
FinerLabels(finer, points) == {finer[p + 1] : p \in points} \ {-1}

\* C14 (as claimed): the metacluster of every cluster of a layer above the
\* base holds the labels its documents have in the flat clustering of the
\* iteration before.
C14_MetaclustersOfPreviousLayer ==
    (bl_pc = "filter" /\ ~ base_layer) =>
        \A c \in 1..Len(layer_metaclusters) :
            layer_metaclusters[c].members =
                FinerLabels(PreviousClusters, layer_pointsets[c].points)

\* C14 (amended): the metacluster of every cluster of every layer holds the
\* labels its documents have in the base clustering.
C14_MetaclustersOfBaseLayer ==
    bl_pc # "idle" =>
        /\ \A k \in 1..Len(metacluster_layers) :
              \A j \in 1..Len(metacluster_layers[k]) :
                  metacluster_layers[k][j].members =
                      FinerLabels(base_clusters, pointset_layers[k][j].points)
        /\ \A c \in 1..Len(layer_metaclusters) :
              layer_metaclusters[c].members =
                  FinerLabels(base_clusters, layer_pointsets[c].points)

\* A third layer is being built, and the base labels of one of its clusters
\* are two and differ from the labels of the iteration before.
C14_Witness ==
    /\ bl_pc = "filter"
    /\ Len(vector_layers) >= 2
    /\ \E c \in 1..Len(layer_metaclusters) :
          /\ Cardinality(layer_metaclusters[c].members) >= 2
          /\ layer_metaclusters[c].members #
                 FinerLabels(PreviousClusters, layer_pointsets[c].points)

\* C16 (as claimed): the loop never comes back to its test, after a layer
\* above the base, with the threshold that layer was built with and with
\* min_clusters clusters or more.  (The clustering, the layer and the next
\* threshold are functions of the threshold: from such a state every
\* iteration repeats the one before.)
C16_ThresholdNeverRepeats ==
    ~ (/\ bl_pc = "loop"
       /\ Len(vector_layers) >= 2
       /\ min_cluster_size = last_min_cluster_size
       /\ n_clusters_in_layer >= min_clusters)

\* C19 (as claimed): after every layer appended, empty ones included, the
\* next threshold is computed and is an integer of 1 or more.
C19_ThresholdAtLeastOne ==
    (bl_pc # "idle" /\ bl_pc # "filter" /\ pointset_layers # << >>) =>
        /\ min_cluster_size >= 1
        /\ ~ (bl_pc = "raised" /\ pointset_layers[Len(pointset_layers)] = << >>)

-----------------------------------------------------------------------------
(***************************************************************************)
(* The TopicNaming object: its constructor (lines 370-412) and the chain   *)
(* of fit_* methods down from clean_topic_names (lines 417-438, 530-550,   *)
(* 594-628, 644-652, 654-690, 742-765, 767-774).  Every method first looks *)
(* for the attribute its work needs and calls the method that makes it     *)
(* when it is missing, then does its own work and sets its own attribute.  *)
(* attrs is the set of attributes that exist and are not None; pl_stack    *)
(* the methods being executed, the caller's own call first; pl_log the     *)
(* methods that did their own work during the current (or last) call.      *)
(***************************************************************************)

\* Bounds: the length of representation_techniques, the number of calls.
MaxTechniques == 2

MaxCalls == 2

Methods ==
    {"fit_clusters", "fit_representation", "fit_base_level_prompts",
     "fit_base_layer_topics", "fit_subtopic_layers", "fit_layers",
     "clean_topic_names"}

\* The attribute a method sets.
Output(method) ==
    CASE method = "fit_clusters" -> "cluster_layers_"
      [] method = "fit_representation" -> "representation_"
      [] method = "fit_base_level_prompts" -> "base_layer_prompts_"
      [] method = "fit_base_layer_topics" -> "base_layer_topics_"
      [] method = "fit_subtopic_layers" -> "subtopic_layers_"
      [] method = "fit_layers" -> "topic_name_layers_"
      [] method = "clean_topic_names" -> "layer_clusters"

\* The method a method calls when the attribute it needs is missing (lines
\* 537-538, 610-611, 649-650, 659-660, 748-749, 773-774); fit_clusters needs
\* none.
Prerequisite(method) ==
    CASE method = "fit_representation" -> "fit_clusters"
      [] method = "fit_base_level_prompts" -> "fit_representation"
      [] method = "fit_base_layer_topics" -> "fit_base_level_prompts"
      [] method = "fit_subtopic_layers" -> "fit_base_layer_topics"
      [] method = "fit_layers" -> "fit_subtopic_layers"
      [] method = "clean_topic_names" -> "fit_layers"

\* getattr(self, attribute, None) is None.
MissingMut(attribute) == TRUE

Missing(attribute) == attribute \notin attrs

\* Lines 541-549: the names fit_representation knows.
Supported == {"topical", "distinctive", "contrastive"}

TechniqueNames == Supported \cup {"other"}

Top == pl_stack[Len(pl_stack)]

Pop == SubSeq(pl_stack, 1, Len(pl_stack) - 1)

\* Lines 370-412.
PlInit ==
    /\ DivIdle
    /\ KpIdle
    /\ DdIdle
    /\ AgIdle
    /\ BlIdle
    /\ PrIdle
    /\ NbIdle
    /\ cluster_layers \in {"None", "ClusterLayers"}
    /\ representation_techniques \in SeqsOf(TechniqueNames, 0, MaxTechniques)
    /\ attrs = IF cluster_layers = "None" THEN {} ELSE {"cluster_layers_"}
    /\ representation_ = {}
    /\ pl_stack = << >>
    /\ pl_log = << >>
    /\ pl_calls = 0
    /\ pl_rep = 0
    /\ pl_status = "constructed"

\* The caller calls a method of the object.
PlCall ==
    /\ pl_stack = << >>
    /\ pl_calls < MaxCalls
    /\ \E method \in Methods : pl_stack' = << [method |-> method, pc |-> "check"] >>
    /\ pl_log' = << >>
    /\ pl_calls' = pl_calls + 1
    /\ pl_status' = "running"
    /\ UNCHANGED <<cluster_layers, representation_techniques, attrs, representation_,
                   pl_rep>>
    /\ UNCHANGED notPl

\* The test at the head of a method, and the call it guards.
PlCheck ==
    /\ pl_stack # << >>
    /\ Top.pc = "check"
    /\ IF Top.method # "fit_clusters" /\ Missing(Output(Prerequisite(Top.method)))
       THEN pl_stack' = Append([pl_stack EXCEPT ![Len(pl_stack)].pc = "body"],
                               [method |-> Prerequisite(Top.method), pc |-> "check"])
       ELSE pl_stack' = [pl_stack EXCEPT ![Len(pl_stack)].pc = "body"]
    /\ UNCHANGED <<cluster_layers, representation_techniques, attrs, representation_,
                   pl_log, pl_calls, pl_rep, pl_status>>
    /\ UNCHANGED notPl

\* The end of the caller's call, or the return to the calling method.
Returned == IF Len(pl_stack) = 1 THEN "returned" ELSE pl_status

\* The own work of every method but fit_representation, and its return.
PlBuild ==
    /\ pl_stack # << >>
    /\ Top.pc = "body"
    /\ Top.method # "fit_representation"
    /\ attrs' = attrs \cup {Output(Top.method)}
    /\ pl_log' = Append(pl_log, Top.method)
    /\ pl_stack' = Pop
    /\ pl_status' = Returned
    /\ UNCHANGED <<cluster_layers, representation_techniques, representation_,
                   pl_calls, pl_rep>>
    /\ UNCHANGED notPl

\* Lines 427-429: build_cluster_layers raises.
PlBuildRaises ==
    /\ pl_stack # << >>
    /\ Top.pc = "body"
    /\ Top.method = "fit_clusters"
    /\ pl_stack' = << >>
    /\ pl_status' = "raised"
    /\ UNCHANGED <<cluster_layers, representation_techniques, attrs, representation_,
                   pl_log, pl_calls, pl_rep>>
    /\ UNCHANGED notPl

\* Line 540.
PlRepStart ==
    /\ pl_stack # << >>
    /\ Top.pc = "body"
    /\ Top.method = "fit_representation"
    /\ attrs' = attrs \cup {"representation_"}
    /\ representation_' = {}
    /\ pl_rep' = 0
    /\ pl_log' = Append(pl_log, "fit_representation")
    /\ pl_stack' = [pl_stack EXCEPT ![Len(pl_stack)].pc = "loop"]
    /\ UNCHANGED <<cluster_layers, representation_techniques, pl_calls, pl_status>>
    /\ UNCHANGED notPl

\* Lines 541-549 for one name of the list.  warn is not a name of the
\* module (line 14 imports warnings): line 549 raises NameError.
PlRepStep ==
    /\ pl_stack # << >>
    /\ Top.pc = "loop"
    /\ pl_rep < Len(representation_techniques)
    /\ IF representation_techniques[pl_rep + 1] \in Supported
       THEN /\ representation_' =
                  representation_ \cup {representation_techniques[pl_rep + 1]}
            /\ pl_rep' = pl_rep + 1
            /\ UNCHANGED <<pl_stack, pl_status>>
       ELSE /\ pl_stack' = << >>
            /\ pl_status' = "raised"
            /\ UNCHANGED <<representation_, pl_rep>>
    /\ UNCHANGED <<cluster_layers, representation_techniques, attrs, pl_log, pl_calls>>
    /\ UNCHANGED notPl

\* Line 550.
PlRepReturn ==
    /\ pl_stack # << >>
    /\ Top.pc = "loop"
    /\ pl_rep >= Len(representation_techniques)
    /\ pl_stack' = Pop
    /\ pl_status' = Returned
    /\ UNCHANGED <<cluster_layers, representation_techniques, attrs, representation_,
                   pl_log, pl_calls, pl_rep>>
    /\ UNCHANGED notPl

PlNext ==
    PlCall \/ PlCheck \/ PlBuild \/ PlBuildRaises \/ PlRepStart \/ PlRepStep
        \/ PlRepReturn

SpecPipeline == PlInit /\ [][PlNext]_vars

\* The stages in the order of the chain.
StageOrder ==
    <<"fit_clusters", "fit_representation", "fit_base_level_prompts",
      "fit_base_layer_topics", "fit_subtopic_layers", "fit_layers",
      "clean_topic_names">>

\* A first call of clean_topic_names on an object constructed without
\* cluster layers has returned.
FirstCleanCallReturned ==
    /\ cluster_layers = "None"
    /\ pl_calls = 1
    /\ pl_status = "returned"
    /\ pl_log # << >>
    /\ pl_log[Len(pl_log)] = "clean_topic_names"

C13_UnsupportedSkipped ==
    (/\ pl_stack = << >>
     /\ \E k \in 1..Len(pl_log) : pl_log[k] = "fit_representation")
        => /\ pl_status = "returned"
           /\ \A k \in 1..Len(representation_techniques) :
                 representation_techniques[k] \in Supported
                     => representation_techniques[k] \in representation_

-----------------------------------------------------------------------------
(***************************************************************************)
(* fit_base_level_prompts (lines 594-628), from line 612 on.  A text is    *)
(* represented by its length in tokens.  The prompt of a cluster built     *)
(* with a quota q (build_base_prompt, lines 552-591) has pr_overhead       *)
(* tokens that do not depend on q (the fixed text, the keywords, the       *)
(* documents of the adjacent clusters) and DocTokens tokens for each of    *)
(* the first q documents of the cluster.                                   *)
(***************************************************************************)

\* Bounds of the inputs.
MaxCtx == 3

MaxOverhead == 4

MaxDocs == 2

MaxQuota == 4

MaxLayerSize == 2

\* The tokens of one document in a prompt.
DocTokens == 2

\* len(self.llm.tokenize(build_base_prompt(cluster_id, layer_id, quota, ...))).
BuildBasePrompt(quota) == pr_overhead + Min2(quota, pr_docs) * DocTokens

\* trim_text (lines 323-334): the first token_trim_length tokens.
TrimText(text, token_trim_length) == Min2(text, token_trim_length)

\* Lines 612-613.
PrInit ==
    /\ DivIdle
    /\ KpIdle
    /\ DdIdle
    /\ AgIdle
    /\ BlIdle
    /\ PlIdle
    /\ NbIdle
    /\ n_ctx \in 1..MaxCtx
    /\ max_docs_per_cluster \in 1..MaxQuota
    /\ layer_size \in 0..MaxLayerSize
    /\ cluster_id = 0
    /\ pr_overhead = 0
    /\ pr_docs = 0
    /\ reduced_docs_per_cluster = 0
    /\ prompt = 0
    /\ prompt_length = 0
    /\ prompts = << >>
    /\ base_layer_prompts_ = << >>
    /\ pr_pc = "for"

\* Lines 614-617: the next cluster and its first prompt.
PrBuild ==
    /\ pr_pc = "for"
    /\ cluster_id < layer_size
    /\ pr_overhead' \in 1..MaxOverhead
    /\ pr_docs' \in 0..MaxDocs
    /\ prompt' = pr_overhead' + Min2(max_docs_per_cluster, pr_docs') * DocTokens
    /\ prompt_length' = prompt'
    /\ reduced_docs_per_cluster' = max_docs_per_cluster
    /\ pr_pc' = "while"
    /\ UNCHANGED <<n_ctx, max_docs_per_cluster, layer_size, cluster_id, prompts,
                   base_layer_prompts_>>
    /\ UNCHANGED notPr

\* Lines 618-621: the loop test holds, the quota is halved and the prompt
\* built and measured again.
PrHalve ==
    /\ pr_pc = "while"
    /\ prompt_length > n_ctx
    /\ reduced_docs_per_cluster' = reduced_docs_per_cluster \div 2
    /\ prompt' = BuildBasePrompt(reduced_docs_per_cluster')
    /\ prompt_length' = prompt'
    /\ pr_pc' = "halved"
    /\ UNCHANGED <<n_ctx, max_docs_per_cluster, layer_size, cluster_id, pr_overhead,
                   pr_docs, prompts, base_layer_prompts_>>
    /\ UNCHANGED notPr

\* Lines 622-624: with a quota below 1 the prompt is cut to the context
\* window; prompt_length is left as it is.
PrTrim ==
    /\ pr_pc = "halved"
    /\ prompt' = IF reduced_docs_per_cluster < 1 THEN TrimText(prompt, n_ctx) ELSE prompt
    /\ pr_pc' = "while"
    /\ UNCHANGED <<n_ctx, max_docs_per_cluster, layer_size, cluster_id, pr_overhead,
                   pr_docs, reduced_docs_per_cluster, prompt_length, prompts,
                   base_layer_prompts_>>
    /\ UNCHANGED notPr

\* Lines 618 and 625: the loop test fails, the prompt is kept.
PrAppend ==
    /\ pr_pc = "while"
    /\ prompt_length <= n_ctx
    /\ prompts' = Append(prompts, prompt)
    /\ cluster_id' = cluster_id + 1
    /\ pr_pc' = "for"
    /\ UNCHANGED <<n_ctx, max_docs_per_cluster, layer_size, pr_overhead, pr_docs,
                   reduced_docs_per_cluster, prompt, prompt_length,
                   base_layer_prompts_>>
    /\ UNCHANGED notPr

\* Lines 626-628.
PrReturn ==
    /\ pr_pc = "for"
    /\ cluster_id >= layer_size
    /\ base_layer_prompts_' = prompts
    /\ pr_pc' = "done"
    /\ UNCHANGED <<n_ctx, max_docs_per_cluster, layer_size, cluster_id, pr_overhead,
                   pr_docs, reduced_docs_per_cluster, prompt, prompt_length, prompts>>
    /\ UNCHANGED notPr

PrNext == PrBuild \/ PrHalve \/ PrTrim \/ PrAppend \/ PrReturn

SpecPrompts == PrInit /\ [][PrNext]_vars

\* The method is one sequential run: it takes its next step whenever it has one.
SpecPromptsFair == SpecPrompts /\ WF_vars(PrNext)

\* C15 (as claimed): the method comes to its end, also when the prompt built
\* with a quota of zero is longer than the context window, and then
\* base_layer_prompts_ holds one prompt per cluster.
C15_TerminatesWithOnePromptPerCluster ==
    /\ <>(pr_pc = "done")
    /\ [](pr_pc = "done" => Len(base_layer_prompts_) = layer_size)

-----------------------------------------------------------------------------
(***************************************************************************)
(* fit_clusters, lines 431-437: the neighbours of the clusters of one      *)
(* layer.  nb_layer is the list of the centroid vectors of the layer.      *)
(***************************************************************************)

\* Bound of the number of clusters of the layer.
MaxLayerClusters == 3

\* Line 435: the columns kept of every row.
NeighbourColumns == 16

\* Line 433, row c: cluster a is strictly farther from cluster c than
\* cluster b is (Python indices).
Farther(c, a, b) ==
    ScaledDistGreater(1, 1, nb_layer[c + 1], nb_layer[a + 1], nb_layer[c + 1], nb_layer[b + 1])

\* The orders of the Python indices 0..n-1.
Orders(n) ==
    {order \in [1..n -> 0..(n - 1)] :
        \A i, j \in 1..n : i # j => order[i] # order[j]}

\* Lines 432-434, row c: np.argsort orders the clusters of the layer by their
\* distance to c; the default sort is not stable, clusters at the same
\* distance come in any order.
Argsort(c) ==
    {order \in Orders(Len(nb_layer)) :
        \A i, j \in 1..Len(nb_layer) : i < j => ~ Farther(c, order[i], order[j])}

\* Line 435: the first 16 columns.
FirstColumns(order) == SubSeq(order, 1, Min2(NeighbourColumns, Len(order)))

NbInit ==
    /\ DivIdle
    /\ KpIdle
    /\ DdIdle
    /\ AgIdle
    /\ BlIdle
    /\ PlIdle
    /\ PrIdle
    /\ nb_layer \in UNION {[1..n -> Vecs] : n \in 1..MaxLayerClusters}
    /\ layer_cluster_neighbours = << >>
    /\ nb_pc = "rows"

\* Lines 432-435: the row of the next cluster.
NbRow ==
    /\ nb_pc = "rows"
    /\ Len(layer_cluster_neighbours) < Len(nb_layer)
    /\ \E order \in Argsort(Len(layer_cluster_neighbours)) :
          layer_cluster_neighbours' =
              Append(layer_cluster_neighbours, FirstColumns(order))
    /\ UNCHANGED <<nb_layer, nb_pc>>
    /\ UNCHANGED notNb

\* Line 438.
NbReturn ==
    /\ nb_pc = "rows"
    /\ Len(layer_cluster_neighbours) = Len(nb_layer)
    /\ nb_pc' = "done"
    /\ UNCHANGED <<nb_layer, layer_cluster_neighbours>>
    /\ UNCHANGED notNb

NbNext == NbRow \/ NbReturn

SpecNeighbours == NbInit /\ [][NbNext]_vars

\* C20 (as claimed): no cluster is in its own list of neighbours.
C20_NeighboursAreOtherClusters ==
    \A c \in 1..Len(layer_cluster_neighbours) :
        (c - 1) \notin SeqRange(layer_cluster_neighbours[c])

=============================================================================
